---- MODULE Spec2Model ----
(***************************************************************************)
(* bonghwa-scraper: the fetch orchestrator (bonghwa.py), the token file it *)
(* reads, and the challenge solver (cf-clearance-scraper/main.py) it runs  *)
(* as a subprocess.                                                        *)
(*                                                                         *)
(* Strings the code searches inside (dictionary keys, response bodies) are *)
(* sequences of one-character strings, so that Python's `in` and `lower`   *)
(* are computed; opaque strings (cookie values, user agents) are TLA+      *)
(* strings.                                                                *)
(***************************************************************************)
EXTENDS Integers, Sequences, FiniteSets, TLC

\* ---------------------------------------------------------------- bounds

\* Longest task list a run is given (LIST_URLS has 2 entries in the source).
MaxTasks == 3

\* Seconds handed to the solver as --timeout (30 in the source, scaled down).
SolveTimeout == 2

\* ------------------------------------------------------------- constants

ROOT_URL == <<"h","t","t","p","s",":","/","/","w","w","w",".","b","o","n","g","h","w","a",".","c","o",".","k","r","/">>

PREFER_DOMAIN == <<"b","o","n","g","h","w","a",".","c","o",".","k","r">>

\* A key of the token file that does not contain PREFER_DOMAIN.
OTHER_KEY == <<"h","t","t","p","s",":","/","/","e","x","a","m","p","l","e",".","o","r","g","/">>

DEFAULT_UA == "Mozilla/5.0 (Windows NT 10.0; Win64; x64) AppleWebKit/537.36 (KHTML, like Gecko) Chrome/141.0.0.0 Safari/537.36"

\* Python's None, and what dict.get returns for a key the dict lacks.
None == "<None>"

\* `not v` for an optional string: None and the empty string are falsy.
Falsy(v) == v \in {None, ""}

\* Values a cf_clearance cookie and a user agent take in the model.
CookieVals == {"cf_A", "cf_B"}

UAVals == {"ua_A", "ua_B"}

\* -------------------------------------------------- token file (JSON)

\* A record of the kind load_cf_info's caller expects: the keys
\* "cf_clearance" and "user_agent" (None: the key is absent).
InfoRecord(cf, ua) ==
    [cf_clearance |-> cf, user_agent |-> ua, cookies |-> <<>>, expires |-> None]

\* Such a record whose "expires" text tells a time that has passed.
ExpiredRecord(cf, ua) ==
    [cf_clearance |-> cf, user_agent |-> ua, cookies |-> <<>>, expires |-> "expired"]

\* A cookie as the browser reports it.
Cookie(name, value) == [name |-> name, value |-> value]

\* A record of the kind the solver writes: the keys "cookies", "user_agent"
\* and "expires", and no "cf_clearance" key.
SolverRecord(cookieList, ua) ==
    [cf_clearance |-> None, user_agent |-> ua, cookies |-> cookieList, expires |-> "expires_str"]

\* The file: absent, unparseable, or an ordered mapping (a sequence of
\* key/entries pairs with distinct keys).
NoFile == [exists |-> FALSE, valid |-> FALSE, data |-> <<>>]

CorruptFile == [exists |-> TRUE, valid |-> FALSE, data |-> <<>>]

JsonFile(data) == [exists |-> TRUE, valid |-> TRUE, data |-> data]

Entry(key, entries) == [key |-> key, entries |-> entries]

\* Python's `sub in s` on strings.
Contains(sub, s) ==
    \E i \in 1..(Len(s) - Len(sub) + 1) : SubSeq(s, i, i + Len(sub) - 1) = sub

\* The smallest element of a non-empty set of integers.
MinOf(S) == CHOOSE x \in S : \A y \in S : x <= y

\* A variant of the key selection that takes the last matching key.
DomKeyIndexLast(data, prefer_domain) ==
    LET hits == {i \in 1..Len(data) : Contains(prefer_domain, data[i].key)}
    IN  IF hits # {} THEN CHOOSE x \in hits : \A y \in hits : x >= y
        ELSE IF Len(data) > 0 THEN 1 ELSE 0

\* Index of dom_key in the mapping, 0 for None:
\* next((k for k in data.keys() if prefer_domain in k), next(iter(data.keys()), None))
DomKeyIndex(data, prefer_domain) ==
    LET hits == {i \in 1..Len(data) : Contains(prefer_domain, data[i].key)}
    IN  IF hits # {} THEN MinOf(hits)
        ELSE IF Len(data) > 0 THEN 1 ELSE 0

\* A variant that falls back to the first key with entries when the selected
\* key has none.
EntriesOfAnyKey(data, prefer_domain) ==
    LET i == DomKeyIndex(data, prefer_domain)
        filled == {j \in 1..Len(data) : data[j].entries # <<>>}
    IN  IF i = 0 THEN <<>>
        ELSE IF data[i].entries # <<>> THEN data[i].entries
        ELSE IF filled # {} THEN data[MinOf(filled)].entries
        ELSE <<>>

\* entries = data.get(dom_key, [])
EntriesOf(data, prefer_domain) ==
    LET i == DomKeyIndex(data, prefer_domain)
    IN  IF i = 0 THEN <<>> ELSE data[i].entries

\* load_cf_info raises: open() fails, json.load fails, or `not entries`.
LoadRaises(f, prefer_domain) ==
    \/ ~f.exists
    \/ ~f.valid
    \/ EntriesOf(f.data, prefer_domain) = <<>>

\* load_cf_info's return value, entries[-1], where it does not raise.
load_cf_info(f, prefer_domain) ==
    LET entries == EntriesOf(f.data, prefer_domain)
    IN  entries[Len(entries)]

\* headers / cookies before the first assignment (headers = None; cookies = None).
NoHeaders == [UserAgent |-> None, AcceptLanguage |-> None, Referer |-> <<>>]

NoCookies == [cf_clearance |-> None]

NoInfo == InfoRecord(None, None)

\* A variant of the test below that accepts any record.
MakeRaisesNever(cf_info) == FALSE

\* make_headers_and_cookies raises ValueError: `if not token`.
MakeRaises(cf_info) == Falsy(cf_info.cf_clearance)

\* A variant that sends the fixed default user agent whatever the record holds.
make_headers_and_cookies_default_ua(cf_info) ==
    << [UserAgent |-> DEFAULT_UA, AcceptLanguage |-> "zh-CN,zh;q=0.9", Referer |-> ROOT_URL],
       [cf_clearance |-> cf_info.cf_clearance] >>

\* make_headers_and_cookies, where it does not raise: <<headers, cookies>>.
make_headers_and_cookies(cf_info) ==
    << [UserAgent |-> IF Falsy(cf_info.user_agent) THEN DEFAULT_UA ELSE cf_info.user_agent,
        AcceptLanguage |-> "zh-CN,zh;q=0.9",
        Referer |-> ROOT_URL],
       [cf_clearance |-> cf_info.cf_clearance] >>

\* The try block of main, lines 130-131: load then build; TRUE when either raises.
TokenLoadRaises(f) ==
    IF LoadRaises(f, PREFER_DOMAIN) THEN TRUE
    ELSE MakeRaises(load_cf_info(f, PREFER_DOMAIN))

\* ------------------------------------------------------ block detection

Lower(c) ==
    CASE c = "A" -> "a" [] c = "B" -> "b" [] c = "C" -> "c" [] c = "D" -> "d"
      [] c = "E" -> "e" [] c = "F" -> "f" [] c = "G" -> "g" [] c = "H" -> "h"
      [] c = "I" -> "i" [] c = "J" -> "j" [] c = "K" -> "k" [] c = "L" -> "l"
      [] c = "M" -> "m" [] c = "N" -> "n" [] c = "O" -> "o" [] c = "P" -> "p"
      [] c = "Q" -> "q" [] c = "R" -> "r" [] c = "S" -> "s" [] c = "T" -> "t"
      [] c = "U" -> "u" [] c = "V" -> "v" [] c = "W" -> "w" [] c = "X" -> "x"
      [] c = "Y" -> "y" [] c = "Z" -> "z" [] OTHER -> c

\* str.lower()
LowerStr(s) == [i \in 1..Len(s) |-> Lower(s[i])]

keywords ==
    << <<"a","t","t","e","n","t","i","o","n"," ","r","e","q","u","i","r","e","d">>,
       <<"j","u","s","t"," ","a"," ","m","o","m","e","n","t">>,
       <<"c","h","e","c","k","i","n","g"," ","y","o","u","r"," ","b","r","o","w","s","e","r">>,
       <<"p","l","e","a","s","e"," ","v","e","r","i","f","y"," ","y","o","u"," ","a","r","e"," ","a"," ","h","u","m","a","n">>,
       <<"c","f","-","e","r","r","o","r">>,
       <<"c","a","p","t","c","h","a">> >>

\* A looser variant of the classifier that also takes the vendor's name as a
\* signature.
is_block_page_loose(text) ==
    LET tl == LowerStr(text)
    IN  \/ \E i \in 1..Len(keywords) : Contains(keywords[i], tl)
        \/ Contains(<<"c","l","o","u","d","f","l","a","r","e">>, tl)

\* is_block_page: any(k in tl for k in keywords), tl = text.lower()
is_block_page(text) ==
    LET tl == LowerStr(text)
    IN  \E i \in 1..Len(keywords) : Contains(keywords[i], tl)

\* Response bodies the site returns in the model.
BodyListing == <<"<","d","i","v",">","l","i","s","t","i","n","g","<","/","d","i","v",">">>

BodyInterstitial == <<"J","u","s","t"," ","a"," ","M","o","m","e","n","t",".",".",".">>

BodyCdn == <<"c","d","n","j","s",".","c","l","o","u","d","f","l","a","r","e",".","c","o","m">>

Bodies == {BodyListing, BodyInterstitial, BodyCdn}

StatusCodes == {200, 503}

\* blocked = (resp.status_code != 200) or is_block_page(resp.text)
Blocked(status, body) == (status # 200) \/ is_block_page(body)

\* ------------------------------------------------------------- state

VARIABLES
    file,             \* contents of COOKIES_FILE
    scriptExists,     \* os.path.exists(cf_script)
    n,                \* len(LIST_URLS)
    pc,               \* where main is: start, init_wait, loop, refresh_wait, done, aborted
    raised,           \* the exception that left main, "" if none
    headers, cookies, \* main's locals of those names
    cf_info,          \* main's local: the record last loaded
    refreshed,        \* main's local flag
    idx,              \* 1-based position of the for loop in LIST_URLS
    log,              \* every fetch_page call issued, in order
    saved,            \* per task: the response written to listing_cat<cat>.html/.json
    solves,           \* every run_cf_clearance_scraper call, in order
    firstLoad,        \* what lines 130-131 did: pending, ok, raised
    spc,              \* where the solver process is
    bClear,           \* value of the browser's cf_clearance cookie, None if absent
    bChallenge,       \* cType found in the page content, None if none
    bUA,              \* navigator.userAgent
    elapsed,          \* whole seconds since solve_challenge's start_timestamp
    clicks,           \* synthetic clicks performed by solve_challenge
    clearance_cookie, \* the solver main's local of that name (its value)
    exitStatus,       \* the solver process's exit status
    outcome,          \* how the solver's main ended
    fileBefore,       \* the file as it was when the solver was started
    probe             \* one direct call of load_cf_info or of the classifier: arguments and result

orchVars == <<n, pc, raised, headers, cookies, cf_info, refreshed, idx, log, saved, solves, firstLoad>>

solverVars == <<spc, bClear, bChallenge, bUA, elapsed, clicks, clearance_cookie, exitStatus, outcome, fileBefore>>

vars == <<file, scriptExists, probe, orchVars, solverVars>>

\* ChallengePlatform values.
ChallengePlatform == {"non-interactive", "managed", "interactive"}

\* Token files a run may find on disk.
InitialFiles ==
    { NoFile,
      CorruptFile,
      JsonFile(<<>>),
      JsonFile(<<Entry(ROOT_URL, <<>>)>>),
      JsonFile(<<Entry(ROOT_URL, <<InfoRecord("cf_A", "ua_A")>>)>>),
      JsonFile(<<Entry(ROOT_URL, <<InfoRecord("cf_A", None)>>)>>),
      JsonFile(<<Entry(ROOT_URL, <<InfoRecord(None, "ua_A")>>)>>),
      JsonFile(<<Entry(ROOT_URL, <<InfoRecord("", "ua_A")>>)>>),
      JsonFile(<<Entry(ROOT_URL, <<ExpiredRecord("cf_A", "ua_A")>>)>>),
      JsonFile(<<Entry(OTHER_KEY, <<InfoRecord("cf_B", "ua_B")>>),
                 Entry(ROOT_URL, <<InfoRecord("cf_B", "ua_B"), InfoRecord("cf_A", "ua_A")>>)>>),
      JsonFile(<<Entry(ROOT_URL, <<SolverRecord(<<Cookie("cf_clearance", "cf_A")>>, "ua_A"),
                                   SolverRecord(<<Cookie("cf_clearance", "cf_A"), Cookie("session", "s")>>, "ua_A")>>)>>) }

\* No direct call is being examined.
NoProbe ==
    [ op |-> "none", hint |-> <<>>, status |-> 0, text |-> <<>>, phrase |-> FALSE,
      done |-> FALSE, raises |-> FALSE, result |-> NoInfo, blocked |-> FALSE ]

NotSaved == [done |-> FALSE, status |-> 0, blockPage |-> FALSE]

Init ==
    /\ file \in InitialFiles
    /\ scriptExists \in BOOLEAN
    /\ n \in 1..MaxTasks
    /\ pc = "start"
    /\ raised = ""
    /\ headers = NoHeaders
    /\ cookies = NoCookies
    /\ cf_info = NoInfo
    /\ refreshed = FALSE
    /\ idx = 1
    /\ log = <<>>
    /\ saved = [k \in 1..MaxTasks |-> NotSaved]
    /\ solves = <<>>
    /\ firstLoad = "pending"
    /\ spc = "idle"
    /\ bClear = None
    /\ bChallenge = None
    /\ bUA = None
    /\ elapsed = 0
    /\ clicks = 0
    /\ clearance_cookie = None
    /\ exitStatus = 0
    /\ outcome = ""
    /\ fileBefore = file
    /\ probe = NoProbe

\* ------------------------------------------------------------ solver
\* cf-clearance-scraper/main.py, run with URL = ROOT_URL, --file COOKIES_FILE,
\* --headed, --timeout.  The orchestrator blocks in subprocess.run until the
\* process exits.

\* What starting the subprocess does to the solver's state.
StartSolver ==
    /\ spc' = "navigate"
    /\ bClear' = None
    /\ bChallenge' = None
    /\ bUA' = None
    /\ elapsed' = 0
    /\ clicks' = 0
    /\ clearance_cookie' = None
    /\ exitStatus' = 0
    /\ outcome' = ""
    /\ fileBefore' = file

\* The process ends: main returned (status 0) or an exception left it (status 1).
SolverExit(how, status) ==
    /\ spc' = "exited"
    /\ outcome' = how
    /\ exitStatus' = status

\* await solver.driver.get(args.url): TimeoutError is caught and main
\* returns; otherwise the page is loaded, with whatever cookie and challenge
\* the site answered with.
SolverNavigate ==
    /\ spc = "navigate"
    /\ \/ /\ SolverExit("nav_timeout", 0)
          /\ UNCHANGED <<bClear, bChallenge, bUA>>
       \/ /\ bClear' \in {None} \cup CookieVals
          /\ bChallenge' \in {None} \cup ChallengePlatform
          /\ bUA' \in UAVals
          /\ spc' = "check_cookie"
          /\ UNCHANGED <<outcome, exitStatus>>
    /\ UNCHANGED <<file, scriptExists, probe, orchVars, elapsed, clicks, clearance_cookie, fileBefore>>

\* Any browser operation before the file is opened (start, navigation other
\* than a timeout, cookie, content or user-agent retrieval) can raise; nothing
\* in the solver catches it and the process exits with a non-zero status.
SolverCrash ==
    /\ spc \in {"navigate", "check_cookie", "detect", "solving", "after_solve", "check_result"}
    /\ SolverExit("crash", 1)
    /\ UNCHANGED <<file, scriptExists, probe, orchVars, bClear, bChallenge, bUA, elapsed, clicks,
                   clearance_cookie, fileBefore>>

\* A variant of the branch below that detects a challenge whatever the cookie.
AfterCookieCheckDetect(c) == "detect"

\* Line 394: `if clearance_cookie is None:` opens the detection and solving
\* block; with a cookie, main goes on at line 408.
AfterCookieCheck(c) == IF c = None THEN "detect" ELSE "check_result"

\* clearance_cookie = solver.extract_clearance_cookie(all_cookies); if None, detect.
SolverCheckCookie ==
    /\ spc = "check_cookie"
    /\ clearance_cookie' = bClear
    /\ spc' = AfterCookieCheck(bClear)
    /\ UNCHANGED <<file, scriptExists, probe, orchVars, bClear, bChallenge, bUA, elapsed, clicks,
                   exitStatus, outcome, fileBefore>>

\* challenge_platform = await solver.detect_challenge(); None: log and return.
\* Otherwise solve_challenge starts: start_timestamp = datetime.now().
SolverDetect ==
    /\ spc = "detect"
    /\ IF bChallenge = None
       THEN /\ SolverExit("no_challenge", 0)
            /\ UNCHANGED elapsed
       ELSE /\ spc' = "solving"
            /\ elapsed' = 0
            /\ UNCHANGED <<outcome, exitStatus>>
    /\ UNCHANGED <<file, scriptExists, probe, orchVars, bClear, bChallenge, bUA, clicks,
                   clearance_cookie, fileBefore>>

\* A variant of the while condition that holds for the first pass only.
LoopConditionOnce ==
    /\ clicks = 0
    /\ bClear = None
    /\ bChallenge # None
    /\ elapsed < SolveTimeout

\* A variant of the while condition that allows passes after the timeout.
LoopConditionLate ==
    /\ bClear = None
    /\ bChallenge # None
    /\ elapsed < SolveTimeout + 2

\* The while condition of solve_challenge.
LoopCondition ==
    /\ bClear = None
    /\ bChallenge # None
    /\ elapsed < SolveTimeout

\* One evaluation of the while condition and, when it holds, one pass of the
\* body: click, sleep one second or more, break if the cookie has appeared.
SolverSolveStep ==
    /\ spc = "solving"
    /\ IF ~LoopCondition
       THEN /\ spc' = "after_solve"
            /\ UNCHANGED <<clicks, elapsed, bClear, bChallenge>>
       ELSE /\ clicks' = clicks + 1
            /\ \E d \in 1..2 : elapsed' = elapsed + d
            /\ bClear' \in {None} \cup CookieVals
            /\ bChallenge' \in {bChallenge, None}
            /\ spc' = IF bClear' # None THEN "after_solve" ELSE "solving"
    /\ UNCHANGED <<file, scriptExists, probe, orchVars, bUA, clearance_cookie, exitStatus, outcome, fileBefore>>

\* After solve_challenge: all_cookies = get_cookies(); clearance_cookie = extract(...).
SolverAfterSolve ==
    /\ spc = "after_solve"
    /\ clearance_cookie' = bClear
    /\ spc' = "check_result"
    /\ UNCHANGED <<file, scriptExists, probe, orchVars, bClear, bChallenge, bUA, elapsed, clicks,
                   exitStatus, outcome, fileBefore>>

\* A variant of the test below that lets a missing cookie through.
ClearanceMissingNever(c) == FALSE

\* if clearance_cookie is None: log "Failed to retrieve ..." and return.
ClearanceMissing(c) == c = None

\* data = {args.url: [{cookies: [clearance_cookie], ...}, {cookies: additional_cookies, ...}]}
SolverData(url, c, ua) ==
    <<Entry(url, << SolverRecord(<<Cookie("cf_clearance", c)>>, ua),
                    SolverRecord(<<Cookie("cf_clearance", c), Cookie("session", "s")>>, ua) >>)>>

\* What open(args.file, "w") leaves on disk before anything is written: an
\* existing, empty file, which json.load rejects.
TruncatedFile == CorruptFile

\* Lines 408-456: return if the cookie is missing, else build data and open
\* args.file with mode "w", which truncates it.
SolverFinish ==
    /\ spc = "check_result"
    /\ IF ClearanceMissing(clearance_cookie)
       THEN /\ SolverExit("no_cookie", 0)
            /\ UNCHANGED file
       ELSE /\ file' = TruncatedFile
            /\ spc' = "writing"
            /\ UNCHANGED <<outcome, exitStatus>>
    /\ UNCHANGED <<scriptExists, probe, orchVars, bClear, bChallenge, bUA, elapsed, clicks,
                   clearance_cookie, fileBefore>>

\* Line 457 and the end of the with block: json.dump(data, file) and close;
\* the options after it are off in the orchestrator's call and main returns.
SolverDump ==
    /\ spc = "writing"
    /\ file' = JsonFile(SolverData(ROOT_URL, clearance_cookie, bUA))
    /\ SolverExit("solved", 0)
    /\ UNCHANGED <<scriptExists, probe, orchVars, bClear, bChallenge, bUA, elapsed, clicks,
                   clearance_cookie, fileBefore>>

\* The process stops between the open and the end of the dump (an I/O error
\* in json.dump, or the process is killed): the file stays as opened.
SolverWriteCrash ==
    /\ spc = "writing"
    /\ SolverExit("write_crash", 1)
    /\ UNCHANGED <<file, scriptExists, probe, orchVars, bClear, bChallenge, bUA, elapsed, clicks,
                   clearance_cookie, fileBefore>>

\* ------------------------------------------------------ orchestrator
\* bonghwa.py main().  The for loop's body opens a `try:` that has no except
\* or finally clause, so nothing in the file catches an exception raised in
\* the body: it leaves main and ends the run.

solverRest == <<bClear, bChallenge, bUA, elapsed, clicks, clearance_cookie, exitStatus, outcome, fileBefore>>

\* An exception leaves main.
Abort(exc) ==
    /\ pc' = "aborted"
    /\ raised' = exc

\* The exception load_cf_info / make_headers_and_cookies raise on file f.
LoadException(f) ==
    IF ~f.exists THEN "FileNotFoundError"
    ELSE IF ~f.valid THEN "JSONDecodeError"
    ELSE "ValueError"

\* A variant of the load below that stores the headers it built before the
\* cf_clearance test, leaving the cookies when the test fails.
LoadTokenPartial ==
    IF LoadRaises(file, PREFER_DOMAIN)
    THEN UNCHANGED <<cf_info, headers, cookies>>
    ELSE /\ cf_info' = load_cf_info(file, PREFER_DOMAIN)
         /\ headers' = make_headers_and_cookies(cf_info')[1]
         /\ IF MakeRaises(cf_info')
            THEN UNCHANGED cookies
            ELSE cookies' = make_headers_and_cookies(cf_info')[2]

\* cf_info = load_cf_info(COOKIES_FILE); headers, cookies = make_headers_and_cookies(cf_info)
\* cf_info is assigned before make_headers_and_cookies can raise; headers and
\* cookies are assigned together by one tuple assignment, or not at all.
LoadToken ==
    IF LoadRaises(file, PREFER_DOMAIN)
    THEN UNCHANGED <<cf_info, headers, cookies>>
    ELSE /\ cf_info' = load_cf_info(file, PREFER_DOMAIN)
         /\ IF MakeRaises(cf_info')
            THEN UNCHANGED <<headers, cookies>>
            ELSE /\ headers' = make_headers_and_cookies(cf_info')[1]
                 /\ cookies' = make_headers_and_cookies(cf_info')[2]

\* A variant that runs the solver at start whatever the file holds.
InitNeedsSolveAlways(f) == TRUE

\* Lines 129-134: the except branch is taken when the load or the build raises.
InitNeedsSolve(f) == TokenLoadRaises(f)

\* A variant that refreshes on every blocked response.
ShouldRefreshEveryBlock(blocked, refr) == blocked

\* A variant that also refreshes when the token in use has expired.
ShouldRefreshOnExpiry(blocked, refr) == (blocked \/ cf_info.expires = "expired") /\ ~refr

\* Line 145: if blocked and not refreshed.
ShouldRefresh(blocked, refr) == blocked /\ ~refr

\* A variant that leaves the flag unset after a refresh.
RefreshedAfterUnset == FALSE

\* Line 150: refreshed = True.
RefreshedAfter == TRUE

\* A variant in which the retry goes to the head of the list.
RetryTaskFirst(k) == 1

\* Line 152: the retry fetches `url`, the current iteration's URL.
RetryTask(k) == k

\* The for loop moves to the next element of LIST_URLS.
NextTask(k) == k + 1

\* What requests.get can do: raise (connection failure, timeout), or return
\* a response.
FetchOutcomes ==
    {[err |-> TRUE, status |-> 0, body |-> <<>>]}
    \cup {[err |-> FALSE, status |-> st, body |-> b] : st \in StatusCodes, b \in Bodies}

\* One fetch_page(url, headers, cookies) call, as sent and as answered.
FetchEvent(k, out, h, c, info, isRetry, refr) ==
    [ task      |-> k,
      ua        |-> h.UserAgent,
      cookie    |-> c.cf_clearance,
      info      |-> info,
      retry     |-> isRetry,
      refreshed |-> refr,
      err       |-> out.err,
      status    |-> out.status,
      blocked   |-> (~out.err /\ Blocked(out.status, out.body)) ]

\* Lines 153-179: resp is written out and parsed whatever it is; then the
\* loop moves on.
ProcessAndAdvance(k, out) ==
    /\ saved' = [saved EXCEPT ![k] =
                    [done |-> TRUE, status |-> out.status, blockPage |-> Blocked(out.status, out.body)]]
    /\ idx' = NextTask(k)
    /\ pc' = IF idx' > n THEN "done" ELSE "loop"
    /\ UNCHANGED raised

\* run_cf_clearance_scraper up to subprocess.run: raises FileNotFoundError
\* if the script is missing, else starts the solver process.
RunScraper(trigger, k, waitAt) ==
    /\ solves' = Append(solves, [trigger |-> trigger, task |-> k, fetches |-> Len(log'),
                                 started |-> scriptExists])
    /\ IF ~scriptExists
       THEN /\ Abort("FileNotFoundError")
            /\ UNCHANGED solverVars
       ELSE /\ StartSolver
            /\ pc' = waitAt
            /\ UNCHANGED raised

\* Lines 129-132: the existing file loads.
MainLoadExisting ==
    /\ pc = "start"
    /\ ~InitNeedsSolve(file)
    /\ LoadToken
    /\ firstLoad' = IF TokenLoadRaises(file) THEN "raised" ELSE "ok"
    /\ pc' = "loop"
    /\ UNCHANGED <<file, scriptExists, probe, n, raised, refreshed, idx, log, saved, solves, solverVars>>

\* Lines 129-135: the load raises and the solver is run.
MainAcquireInitial ==
    /\ pc = "start"
    /\ InitNeedsSolve(file)
    /\ LoadToken
    /\ firstLoad' = IF TokenLoadRaises(file) THEN "raised" ELSE "ok"
    /\ log' = log
    /\ RunScraper("initial", 0, "init_wait")
    /\ UNCHANGED <<file, scriptExists, probe, n, refreshed, idx, saved>>

\* Lines 135-137: subprocess.run returns or raises CalledProcessError
\* (check=True); then the file is loaded again, outside any try.
MainInitialSolved ==
    /\ pc = "init_wait"
    /\ spc = "exited"
    /\ spc' = "idle"
    /\ IF exitStatus # 0
       THEN /\ Abort("CalledProcessError")
            /\ UNCHANGED <<cf_info, headers, cookies>>
       ELSE /\ LoadToken
            /\ IF TokenLoadRaises(file)
               THEN Abort(LoadException(file))
               ELSE pc' = "loop" /\ UNCHANGED raised
    /\ UNCHANGED <<file, scriptExists, probe, n, refreshed, idx, log, saved, solves, firstLoad, solverRest>>

\* Lines 143-147 and 153-179: one fetch of the current task, its
\* classification, and either the start of the refresh or the processing.
MainFetch ==
    /\ pc = "loop"
    /\ \E out \in FetchOutcomes :
         /\ log' = Append(log, FetchEvent(idx, out, headers, cookies, cf_info, FALSE, refreshed))
         /\ IF out.err
            THEN /\ Abort("NetworkError")
                 /\ UNCHANGED <<idx, saved, solves, solverVars>>
            ELSE IF ShouldRefresh(Blocked(out.status, out.body), refreshed)
            THEN /\ RunScraper("blocked", idx, "refresh_wait")
                 /\ UNCHANGED <<idx, saved>>
            ELSE /\ ProcessAndAdvance(idx, out)
                 /\ UNCHANGED <<solves, solverVars>>
    /\ UNCHANGED <<file, scriptExists, probe, n, headers, cookies, cf_info, refreshed, firstLoad>>

\* Lines 147-179: subprocess.run returns or raises; the file is reloaded,
\* the flag set, the current task fetched again and its response processed.
MainRefreshDone ==
    /\ pc = "refresh_wait"
    /\ spc = "exited"
    /\ spc' = "idle"
    /\ IF exitStatus # 0
       THEN /\ Abort("CalledProcessError")
            /\ UNCHANGED <<cf_info, headers, cookies, refreshed, idx, log, saved>>
       ELSE /\ LoadToken
            /\ IF TokenLoadRaises(file)
               THEN /\ Abort(LoadException(file))
                    /\ UNCHANGED <<refreshed, idx, log, saved>>
               ELSE /\ refreshed' = RefreshedAfter
                    /\ \E out \in FetchOutcomes :
                         /\ log' = Append(log, FetchEvent(RetryTask(idx), out, headers', cookies',
                                                          cf_info', TRUE, refreshed'))
                         /\ IF out.err
                            THEN /\ Abort("NetworkError")
                                 /\ UNCHANGED <<idx, saved>>
                            ELSE ProcessAndAdvance(idx, out)
    /\ UNCHANGED <<file, scriptExists, probe, n, solves, firstLoad, solverRest>>

Next ==
    \/ MainLoadExisting
    \/ MainAcquireInitial
    \/ MainInitialSolved
    \/ MainFetch
    \/ MainRefreshDone
    \/ SolverNavigate
    \/ SolverCrash
    \/ SolverCheckCookie
    \/ SolverDetect
    \/ SolverSolveStep
    \/ SolverAfterSolve
    \/ SolverFinish
    \/ SolverDump
    \/ SolverWriteCrash

Spec == Init /\ [][Next]_vars

\* The solver process keeps running while it is in solve_challenge: every
\* await in the loop returns or raises, so the next evaluation of the while
\* condition is eventually made.
SpecFair == Spec /\ WF_vars(SolverSolveStep)

\* ------------------------------------------- direct calls of the functions
\* load_cf_info and the blocked classification, called once on arguments
\* drawn from the sets below.

\* A key that contains the default prefer_domain and is not ROOT_URL.
ALT_KEY == <<"h","t","t","p",":","/","/","b","o","n","g","h","w","a",".","c","o",".","k","r","/">>

ProbeKeys == {ROOT_URL, OTHER_KEY, ALT_KEY}

\* Values of data[key]: no entry, one, or two in either order.
ProbeSeqs ==
    { <<>>,
      <<InfoRecord("cf_A", "ua_A")>>,
      <<InfoRecord("cf_A", "ua_A"), InfoRecord("cf_B", "ua_B")>>,
      <<InfoRecord("cf_B", "ua_B"), InfoRecord("cf_A", "ua_A")>> }

\* JSON objects of up to three distinct keys, in every order.
ProbeMappings ==
    UNION { { d \in [1..m -> [key : ProbeKeys, entries : ProbeSeqs]] :
                \A i, j \in 1..m : i # j => d[i].key # d[j].key } : m \in 0..3 }

ProbeFiles == {NoFile, CorruptFile} \cup {JsonFile(d) : d \in ProbeMappings}

\* Values of prefer_domain.
ProbeHints ==
    { PREFER_DOMAIN,
      <<>>,
      <<"e","x","a","m","p","l","e">>,
      <<"w","w","w">>,
      <<"h","t","t","p","s">>,
      <<"z","z">> }

Upper(c) ==
    CASE c = "a" -> "A" [] c = "b" -> "B" [] c = "c" -> "C" [] c = "d" -> "D"
      [] c = "e" -> "E" [] c = "f" -> "F" [] c = "g" -> "G" [] c = "h" -> "H"
      [] c = "i" -> "I" [] c = "j" -> "J" [] c = "k" -> "K" [] c = "l" -> "L"
      [] c = "m" -> "M" [] c = "n" -> "N" [] c = "o" -> "O" [] c = "p" -> "P"
      [] c = "q" -> "Q" [] c = "r" -> "R" [] c = "s" -> "S" [] c = "t" -> "T"
      [] c = "u" -> "U" [] c = "v" -> "V" [] c = "w" -> "W" [] c = "x" -> "X"
      [] c = "y" -> "Y" [] c = "z" -> "Z" [] OTHER -> c

\* A phrase in lower case, in upper case, and with alternating case.
CaseVariants(s) ==
    { s,
      [i \in 1..Len(s) |-> Upper(s[i])],
      [i \in 1..Len(s) |-> IF i % 2 = 1 THEN Upper(s[i]) ELSE s[i]] }

\* Text around a phrase: nothing, or a title element.
BodyWraps ==
    { << <<>>, <<>> >>,
      << <<"<","t","i","t","l","e",">">>, <<"<","/","t","i","t","l","e",">"," ","o","k">> >> }

\* Response texts that contain one of the signature phrases in some case.
PhraseBodies ==
    { w[1] \o v \o w[2] : w \in BodyWraps,
                          v \in UNION {CaseVariants(keywords[i]) : i \in 1..Len(keywords)} }

\* Response texts that contain none of them: a listing, the CDN host name in
\* both cases, the vendor's name, near misses of three phrases, the empty text.
PlainBodies ==
    { BodyListing,
      BodyCdn,
      [i \in 1..Len(BodyCdn) |-> Upper(BodyCdn[i])],
      <<"c","l","o","u","d","f","l","a","r","e">>,
      <<"j","u","s","t"," ","a"," "," ","m","o","m","e","n","t">>,
      <<"c","f"," ","e","r","r","o","r">>,
      <<"c","a","p","t","c","h">>,
      <<>> }

\* resp.status_code values.
ProbeStatusCodes == {200, 403, 503}

LoadProbe(h) == [NoProbe EXCEPT !.op = "load", !.hint = h]

ClassifyProbe(st, t, ph) ==
    [NoProbe EXCEPT !.op = "classify", !.status = st, !.text = t, !.phrase = ph]

\* The arguments of one call; the orchestrator and the solver are not running.
InitProbe ==
    /\ \/ /\ file \in ProbeFiles
          /\ probe \in {LoadProbe(h) : h \in ProbeHints}
       \/ /\ file = NoFile
          /\ probe \in {ClassifyProbe(st, t, TRUE) : st \in ProbeStatusCodes, t \in PhraseBodies}
                       \cup {ClassifyProbe(st, t, FALSE) : st \in ProbeStatusCodes, t \in PlainBodies}
    /\ scriptExists = FALSE
    /\ n = 1
    /\ pc = "start"
    /\ raised = ""
    /\ headers = NoHeaders
    /\ cookies = NoCookies
    /\ cf_info = NoInfo
    /\ refreshed = FALSE
    /\ idx = 1
    /\ log = <<>>
    /\ saved = [k \in 1..MaxTasks |-> NotSaved]
    /\ solves = <<>>
    /\ firstLoad = "pending"
    /\ spc = "idle"
    /\ bClear = None
    /\ bChallenge = None
    /\ bUA = None
    /\ elapsed = 0
    /\ clicks = 0
    /\ clearance_cookie = None
    /\ exitStatus = 0
    /\ outcome = ""
    /\ fileBefore = file

\* load_cf_info(COOKIES_FILE, prefer_domain): raises, or returns a record.
ProbeLoad ==
    /\ probe.op = "load"
    /\ ~probe.done
    /\ probe' = [probe EXCEPT !.done = TRUE,
                              !.raises = LoadRaises(file, probe.hint),
                              !.result = IF LoadRaises(file, probe.hint) THEN NoInfo
                                         ELSE load_cf_info(file, probe.hint)]
    /\ UNCHANGED <<file, scriptExists, orchVars, solverVars>>

\* blocked = (resp.status_code != 200) or is_block_page(resp.text)
ProbeClassify ==
    /\ probe.op = "classify"
    /\ ~probe.done
    /\ probe' = [probe EXCEPT !.done = TRUE, !.blocked = Blocked(probe.status, probe.text)]
    /\ UNCHANGED <<file, scriptExists, orchVars, solverVars>>

NextProbe ==
    \/ ProbeLoad
    \/ ProbeClassify

SpecProbe == InitProbe /\ [][NextProbe]_vars

\* ------------------------------------------------------------ claims

\* Positions in the fetch log of the fetches of task k.
FetchesOf(k) == {i \in 1..Len(log) : log[i].task = k}

\* run_cf_clearance_scraper calls made because a response was classified blocked.
BlockedSolves == {i \in 1..Len(solves) : solves[i].trigger = "blocked"}

\* Positions of the fetches classified as blocked.
BlockedFetches == {i \in 1..Len(log) : log[i].blocked}

\* C1: over a whole run the solver is invoked at most once in response to a
\* blocked classification, however many tasks are blocked.
C1_RefreshBudget == Cardinality(BlockedSolves) <= 1

\* C1 witness: the refresh has been spent on one task and a later task's
\* first fetch was classified as blocked too.
C1_Witness ==
    /\ Cardinality(BlockedSolves) = 1
    /\ \E i \in 1..Len(log) :
         /\ log[i].blocked /\ ~log[i].retry /\ log[i].refreshed
         /\ \E s \in BlockedSolves : solves[s].task < log[i].task

C3_SpentBudgetBlockIsFailure ==
    \A i \in 1..Len(log) :
        (log[i].blocked /\ ~log[i].retry /\ log[i].refreshed) =>
            /\ \A s \in 1..Len(solves) : solves[s].task # log[i].task
            /\ Cardinality(FetchesOf(log[i].task)) = 1
            /\ ~saved[log[i].task].done

\* C4: every fetch sends as User-Agent exactly the user_agent stored in the
\* record that supplied its cf_clearance value, also when the record has none.
C4_IdentityFromRecord ==
    \A i \in 1..Len(log) :
        /\ log[i].cookie = log[i].info.cf_clearance
        /\ log[i].ua = log[i].info.user_agent

\* C4 as amended: cookie and User-Agent of every fetch come from one record;
\* the User-Agent is the record's user_agent when that is non-empty and the
\* fixed default user agent when the record has none.
C4_IdentityFromRecordOrDefault ==
    \A i \in 1..Len(log) :
        /\ log[i].cookie = log[i].info.cf_clearance
        /\ ~Falsy(log[i].cookie)
        /\ log[i].ua = IF Falsy(log[i].info.user_agent) THEN DEFAULT_UA
                       ELSE log[i].info.user_agent

\* C4 witness: one run with a fetch before the refresh and a fetch after it,
\* from a record that lacks user_agent, sent with the default user agent.
C4_Witness ==
    \E i, j \in 1..Len(log) :
        /\ ~log[i].refreshed /\ log[j].refreshed
        /\ log[i].info.user_agent = None
        /\ log[i].ua = DEFAULT_UA

\* C5: once the solver has succeeded and written the file, the orchestrator's
\* load of that file succeeds and yields the captured cookie value and the
\* recorded user agent.
C5_SolverFileLoads ==
    (spc = "exited" /\ outcome = "solved") =>
        /\ ~TokenLoadRaises(file)
        /\ make_headers_and_cookies(load_cf_info(file, PREFER_DOMAIN))[2].cf_clearance = clearance_cookie
        /\ make_headers_and_cookies(load_cf_info(file, PREFER_DOMAIN))[1].UserAgent = bUA

\* Calls of run_cf_clearance_scraper made from the except branch at start.
InitialSolves == {i \in 1..Len(solves) : solves[i].trigger = "initial"}

\* C6: if the first load raises, the solver is called exactly once, before
\* any fetch; a fetch is only ever issued with a token that loaded; a run
\* whose token cannot be loaded after that solve ends with no fetch issued;
\* if the first load succeeds the solver is not called before the first fetch.
C6_InitialAcquisition ==
    /\ firstLoad = "raised" =>
         /\ Cardinality(InitialSolves) = 1
         /\ solves[1].trigger = "initial" /\ solves[1].fetches = 0
    /\ (firstLoad = "raised" /\ pc = "aborted") => Len(log) = 0
    /\ pc \in {"loop", "refresh_wait", "done"} => ~Falsy(cookies.cf_clearance)
    /\ Len(log) > 0 => (~Falsy(log[1].cookie) /\ log[1].cookie = log[1].info.cf_clearance)
    /\ firstLoad = "ok" =>
         /\ InitialSolves = {}
         /\ \A s \in 1..Len(solves) : solves[s].fetches > 0

\* C6 witness: the first load raised, the solver ran once and wrote the file,
\* the load after it raised again and the run ended without a fetch.
C6_Witness ==
    /\ firstLoad = "raised"
    /\ pc = "aborted"
    /\ outcome = "solved"
    /\ raised = "ValueError"
    /\ Len(log) = 0

\* C7: a failure while processing a task does not end the run: once the run
\* is over, every task of the list has been fetched.
C7_FailureIsPerTask ==
    (pc \in {"done", "aborted"} /\ Len(log) > 0) =>
        \A k \in 1..n : FetchesOf(k) # {}

\* C8: a transport error is not retried, starts no solver and leaves the
\* refresh flag as it was, and the run goes on so that a later task can
\* still use the refresh.
C8_TransportErrorKeepsBudget ==
    \A i \in 1..Len(log) :
        log[i].err =>
            /\ Cardinality(FetchesOf(log[i].task)) = 1 \/ log[i].retry
            /\ \A s \in 1..Len(solves) : solves[s].fetches # i
            /\ i = Len(log) => refreshed = log[i].refreshed
            /\ log[i].task < n => pc # "aborted"

\* C9: tasks are fetched in input order without overlap: the log's task
\* numbers never decrease, a refresh lies between the two fetches of its own
\* task, and main waits while the solver runs.
C9_InOrderNoOverlap ==
    /\ \A i, j \in 1..Len(log) : i < j => log[i].task <= log[j].task
    /\ \A s \in BlockedSolves :
         /\ \A i \in 1..Len(log) : i <= solves[s].fetches => log[i].task <= solves[s].task
         /\ \A i \in 1..Len(log) : i > solves[s].fetches => log[i].task >= solves[s].task
    /\ spc \notin {"idle", "exited"} => pc \in {"init_wait", "refresh_wait"}
    /\ \A i \in 1..Len(log) : log[i].task <= idx

\* C9 witness: three tasks, the second blocked and retried after a refresh,
\* the third fetched after it.
C9_Witness ==
    /\ Len(log) = 4
    /\ log[1].task = 1 /\ log[2].task = 2 /\ log[3].task = 2 /\ log[4].task = 3
    /\ log[3].retry

\* C10: a solver run that ends at a navigation timeout, with no challenge
\* detected or without the cookie leaves the file as it was; the file differs
\* from what it was at the start of the run only after a cf_clearance cookie
\* was obtained.
C10_FailedSolveLeavesFile ==
    /\ outcome \in {"nav_timeout", "no_challenge", "no_cookie", "crash"} => file = fileBefore
    /\ spc \notin {"idle", "exited", "writing"} => file = fileBefore
    /\ file # fileBefore =>
         /\ clearance_cookie \in CookieVals
         /\ spc = "writing" \/ outcome \in {"solved", "write_crash"}

\* C10 witness: the solve loop clicked until the timeout, the cookie never
\* came, and the file that existed before is still there.
C10_Witness ==
    /\ spc = "exited"
    /\ outcome = "no_cookie"
    /\ clicks > 0
    /\ elapsed >= SolveTimeout
    /\ fileBefore.exists
    /\ file = fileBefore

\* C11: a solver run that fails (navigation timeout, no challenge detected,
\* cookie not obtained within the timeout) exits with a non-zero status, and
\* the orchestrator never goes on past such a run as if the solve had succeeded.
C11_FailureExitsNonZero ==
    /\ (spc = "exited" /\ outcome \in {"nav_timeout", "no_challenge", "no_cookie"}) => exitStatus # 0
    /\ (spc = "idle" /\ outcome \in {"nav_timeout", "no_challenge", "no_cookie"}) =>
          (pc = "aborted" /\ raised = "CalledProcessError")

\* Sequence a is an initial segment of sequence b.
IsPrefix(a, b) == Len(a) <= Len(b) /\ \A i \in 1..Len(a) : b[i] = a[i]

\* C12: a successful solve appends to the sequence of its key and removes
\* nothing: every key the file held before the solve is still in the file, and
\* the snapshots it held are still there, in their order, before any new one.
C12_AppendKeepsHistory ==
    (outcome = "solved" /\ fileBefore.valid) =>
        /\ file.valid
        /\ \A i \in 1..Len(fileBefore.data) :
              \E j \in 1..Len(file.data) :
                 /\ file.data[j].key = fileBefore.data[i].key
                 /\ IsPrefix(fileBefore.data[i].entries, file.data[j].entries)

\* C18: the token file write is atomic for a reader: while the solver writes,
\* after it has written, and if it stops part-way, the file holds either the
\* complete contents it had before the solver started or the complete new
\* contents, never an empty or partial file.
C18_WriteIsAtomic ==
    (spc = "writing" \/ outcome \in {"solved", "write_crash"}) =>
        \/ file = fileBefore
        \/ file = JsonFile(SolverData(ROOT_URL, clearance_cookie, bUA))

\* C19 as stated: the solve loop is left only when the cf_clearance cookie is
\* present or the elapsed time has reached the timeout (an exception that ends
\* the process aside).
C19_LoopExitsOnCookieOrTimeout ==
    [][ (spc = "solving" /\ spc' # "solving") =>
            \/ bClear' # None
            \/ elapsed' >= SolveTimeout
            \/ outcome' = "crash" ]_vars

\* C19, amended: the solve loop is left only when the cf_clearance cookie is
\* present, or the page no longer shows a challenge, or the elapsed time has
\* reached the timeout (an exception that ends the process aside); while the
\* cookie is absent, a challenge is detected and the time is not up, it goes on.
C19_LoopExitsOnCookieChallengeGoneOrTimeout ==
    [][ (spc = "solving" /\ spc' # "solving") =>
            \/ bClear' # None
            \/ bChallenge' = None
            \/ elapsed' >= SolveTimeout
            \/ outcome' = "crash" ]_vars

\* The loop was left before the timeout, without a cookie, because the
\* challenge disappeared after a click.
C19_Witness ==
    /\ spc = "after_solve"
    /\ clicks > 0
    /\ bClear = None
    /\ bChallenge = None
    /\ elapsed < SolveTimeout

\* C20: the solve loop ends; it clicks at most once per elapsed second, makes
\* no click once the elapsed time has reached the timeout, and is entered at
\* most once per solver invocation, from the challenge detection, never again
\* after it has been left.
C20_SolveLoopTimeout ==
    /\ [](clicks <= elapsed /\ clicks <= SolveTimeout)
    /\ [][ clicks' > clicks =>
              /\ spc = "solving"
              /\ elapsed < SolveTimeout
              /\ clicks' = clicks + 1
              /\ elapsed' >= elapsed + 1 ]_vars
    /\ [][ (spc # "solving" /\ spc' = "solving") => (spc = "detect" /\ clicks = 0) ]_vars
    /\ (spc = "solving") ~> (spc # "solving")

\* The loop ended on the timeout: clicks were made, the cookie never
\* appeared and the challenge is still shown.
C20_Witness ==
    /\ spc = "after_solve"
    /\ clicks > 0
    /\ bClear = None
    /\ bChallenge # None
    /\ elapsed >= SolveTimeout

\* The file is an ordered mapping with at least one key, every key with a
\* non-empty sequence.
WellFormedFile ==
    /\ file.exists
    /\ file.valid
    /\ Len(file.data) >= 1
    /\ \A i \in 1..Len(file.data) : file.data[i].entries # <<>>

\* Positions of the keys that contain the hint of the call.
HintMatches == {i \in 1..Len(file.data) : Contains(probe.hint, file.data[i].key)}

\* C13: on a well-formed file load_cf_info returns, for any hint, the last
\* element of the sequence of the first key in file order that contains the
\* hint, and the last element of the first key's sequence if no key contains it.
C13_LoadSelection ==
    (probe.op = "load" /\ probe.done /\ WellFormedFile) =>
        /\ ~probe.raises
        /\ IF HintMatches = {}
           THEN probe.result = file.data[1].entries[Len(file.data[1].entries)]
           ELSE \E i \in HintMatches :
                   /\ \A j \in HintMatches : i <= j
                   /\ probe.result = file.data[i].entries[Len(file.data[i].entries)]

\* A load where the first key does not contain the hint, the second and the
\* third do, and the three keys end in records that tell them apart.
C13_Witness ==
    /\ probe.op = "load"
    /\ probe.done
    /\ WellFormedFile
    /\ probe.hint = PREFER_DOMAIN
    /\ Len(file.data) = 3
    /\ HintMatches = {2, 3}
    /\ file.data[2].entries = <<InfoRecord("cf_A", "ua_A"), InfoRecord("cf_B", "ua_B")>>
    /\ file.data[3].entries = <<InfoRecord("cf_A", "ua_A")>>
    /\ file.data[1].entries = <<InfoRecord("cf_A", "ua_A")>>
    /\ probe.result = InfoRecord("cf_B", "ua_B")

\* The sequence of the key the selection rule picks is empty.
SelectedSequenceEmpty ==
    /\ file.valid
    /\ Len(file.data) >= 1
    /\ IF HintMatches = {}
       THEN file.data[1].entries = <<>>
       ELSE \E i \in HintMatches :
               /\ \A j \in HintMatches : i <= j
               /\ file.data[i].entries = <<>>

\* C14: load_cf_info raises and returns nothing when the file is absent, when
\* the mapping has no key, and when the selected key's sequence is empty,
\* whatever the other keys hold.
C14_LoadFails ==
    (/\ probe.op = "load"
     /\ probe.done
     /\ \/ ~file.exists
        \/ file.valid /\ file.data = <<>>
        \/ SelectedSequenceEmpty) =>
        /\ probe.raises
        /\ probe.result = NoInfo

\* A load that failed on the empty sequence of the matched key while the key
\* before it has entries.
C14_Witness ==
    /\ probe.op = "load"
    /\ probe.done
    /\ probe.raises
    /\ probe.hint = PREFER_DOMAIN
    /\ file.valid
    /\ Len(file.data) = 2
    /\ file.data[1] = Entry(OTHER_KEY, <<InfoRecord("cf_A", "ua_A")>>)
    /\ file.data[2] = Entry(ROOT_URL, <<>>)

\* C17: a response is classified blocked exactly when its status is not 200
\* or its text contains one of the signature phrases in any letter case; a
\* 200 response whose text only names the vendor's CDN host is not blocked.
C17_BlockClassification ==
    (probe.op = "classify" /\ probe.done) =>
        /\ probe.blocked = (probe.status # 200 \/ probe.phrase)
        /\ (probe.status = 200 /\ probe.text = BodyCdn) => ~probe.blocked

\* A 200 response whose text is cdnjs.cloudflare.com was classified.
C17_Witness ==
    /\ probe.op = "classify"
    /\ probe.done
    /\ probe.status = 200
    /\ probe.text = BodyCdn
    /\ ~probe.phrase
    /\ ~probe.blocked

\* The record load_cf_info selects from file f has no usable cf_clearance.
LacksCredential(f) ==
    IF LoadRaises(f, PREFER_DOMAIN) THEN FALSE
    ELSE load_cf_info(f, PREFER_DOMAIN).cf_clearance \in {None, ""}

\* C15: a selected record without the credential value is rejected: no fetch
\* is ever sent with an absent or empty cf_clearance cookie; at start such a
\* record makes the orchestrator call the solver before any fetch, and after
\* a solve it ends the run instead of letting it go on.
C15_MalformedTokenRejected ==
    /\ [](\A i \in 1..Len(log) : log[i].cookie \notin {None, ""})
    /\ [][ (pc = "start" /\ LacksCredential(file)) =>
              /\ pc' \in {"init_wait", "aborted"}
              /\ Len(solves') = 1
              /\ solves'[1].trigger = "initial"
              /\ log' = <<>>
              /\ cookies' = NoCookies ]_vars
    /\ [][ (pc \in {"init_wait", "refresh_wait"} /\ spc = "exited" /\ LacksCredential(file)) =>
              /\ pc' = "aborted"
              /\ log' = log ]_vars

\* At start the file's record had no cf_clearance and the solver was started.
C15_Witness ==
    /\ pc = "init_wait"
    /\ fileBefore = JsonFile(<<Entry(ROOT_URL, <<InfoRecord(None, "ua_A")>>)>>)
    /\ firstLoad = "raised"
    /\ Len(solves) = 1
    /\ solves[1].trigger = "initial"
    /\ solves[1].started
    /\ log = <<>>

\* C16: the solver is started only after a failed initial load or after a
\* fetch classified blocked, never for the token's expiry: in a run whose
\* first load succeeded and in which no response was classified blocked, the
\* solver is never started, no task is fetched twice, every processed task
\* (every task, once the run is complete) was fetched exactly once and not
\* blocked, and the token in use and the token file are as at the start.
C16_SolverOnlyOnLoadFailureOrBlock ==
    /\ \A i \in 1..Len(solves) :
          \/ /\ solves[i].trigger = "initial"
             /\ firstLoad = "raised"
             /\ solves[i].fetches = 0
          \/ /\ solves[i].trigger = "blocked"
             /\ solves[i].fetches >= 1
             /\ log[solves[i].fetches].blocked
    /\ (firstLoad = "ok" /\ BlockedFetches = {}) =>
          /\ solves = <<>>
          /\ spc = "idle"
          /\ ~refreshed
          /\ file = fileBefore
          /\ cf_info = load_cf_info(file, PREFER_DOMAIN)
          /\ cookies = [cf_clearance |-> cf_info.cf_clearance]
          /\ \A i \in 1..Len(log) : log[i].cookie = cookies.cf_clearance /\ ~log[i].retry
          /\ \A k \in 1..n : Cardinality(FetchesOf(k)) <= 1
          /\ \A k \in 1..n : saved[k].done => Cardinality(FetchesOf(k)) = 1
          /\ pc = "done" => \A k \in 1..n : saved[k].done /\ ~saved[k].blockPage

\* A complete run of two or more tasks on a token whose expiry has passed:
\* nothing was blocked and the solver was never started.
C16_Witness ==
    /\ pc = "done"
    /\ n >= 2
    /\ firstLoad = "ok"
    /\ cf_info.expires = "expired"
    /\ BlockedFetches = {}
    /\ Len(log) = n
    /\ solves = <<>>
    /\ file = fileBefore

\* C21: when the cf_clearance cookie is present right after navigation, the
\* solver goes straight to the result: challenge detection is reached only
\* with the cookie absent, so a run with the cookie present makes no
\* detection, no click and no wait, and what it writes is the token of that
\* cookie.
C21_CookieShortcut ==
    /\ [][ (spc = "check_cookie" /\ bClear # None /\ outcome' # "crash") =>
              /\ spc' = "check_result"
              /\ clearance_cookie' = bClear
              /\ clicks' = 0
              /\ elapsed' = 0 ]_vars
    /\ [][ (spc # "detect" /\ spc' = "detect") => (spc = "check_cookie" /\ bClear = None) ]_vars
    /\ []((spc \in {"check_result", "writing"} /\ clicks = 0) =>
              /\ clearance_cookie = bClear
              /\ clearance_cookie \in CookieVals
              /\ elapsed = 0)
    /\ []((outcome = "solved" /\ clicks = 0) =>
              /\ elapsed = 0
              /\ clearance_cookie \in CookieVals
              /\ file = JsonFile(SolverData(ROOT_URL, clearance_cookie, bUA)))

\* A solver run that found the cookie after navigation and wrote its token
\* without a click or a wait.
C21_Witness ==
    /\ spc = "exited"
    /\ outcome = "solved"
    /\ exitStatus = 0
    /\ clicks = 0
    /\ elapsed = 0
    /\ clearance_cookie = bClear
    /\ bClear \in CookieVals
    /\ file = JsonFile(SolverData(ROOT_URL, bClear, bUA))

\* What the caller of run_cf_clearance_scraper has of a finished solver run:
\* the process's return code (through check=True) and the token file.
CallerSees == [returncode |-> exitStatus, fileChanged |-> file # fileBefore]

\* What the caller has of a run that tried the challenge and got no cookie:
\* main returned at line 410, before the file is opened.
FailedAttemptSeen == [returncode |-> 0, fileChanged |-> FALSE]

\* The part of C22 about the solver alone: the run ended without entering the
\* solve loop or clicking, and left the file untouched.
NoChallengeNoLoop ==
    outcome = "no_challenge" =>
        /\ spc \in {"exited", "idle"}
        /\ clicks = 0
        /\ elapsed = 0
        /\ bClear = None
        /\ bChallenge = None
        /\ file = fileBefore

\* C22: with the cookie absent and no challenge kind detected the solver ends
\* in failure without entering the solve loop or clicking, and the caller can
\* tell this end from that of a challenge that was tried and failed.
C22_NoChallengeDistinct ==
    /\ NoChallengeNoLoop
    /\ (spc = "exited" /\ outcome = "no_cookie") => CallerSees = FailedAttemptSeen
    /\ (spc = "exited" /\ outcome = "no_challenge") => CallerSees # FailedAttemptSeen

\* The exceptions a refresh can end with: the script is missing, the solver
\* process failed, the file did not load, the record had no cf_clearance.
RefreshErrors == {"FileNotFoundError", "CalledProcessError", "JSONDecodeError", "ValueError"}

\* C23: when the refresh after a blocked fetch ends with an error (the solver
\* call raises, or the reload or the build of headers and cookies raises),
\* headers and cookies are both what they were before the refresh, the
\* blocked task is not fetched again and the refreshed flag is not set.
C23_FailedRefreshKeepsPair ==
    /\ [][ (pc = "refresh_wait" /\ pc' = "aborted" /\ raised' # "NetworkError") =>
              /\ raised' \in RefreshErrors
              /\ headers' = headers
              /\ cookies' = cookies
              /\ log' = log
              /\ refreshed' = FALSE ]_vars
    /\ [][ (pc = "loop" /\ pc' = "aborted" /\ raised' # "NetworkError") =>
              /\ raised' = "FileNotFoundError"
              /\ headers' = headers
              /\ cookies' = cookies
              /\ log' = Append(log, log'[Len(log')])
              /\ log'[Len(log')].blocked
              /\ ~log'[Len(log')].retry
              /\ refreshed' = FALSE ]_vars
    /\ [](pc = "refresh_wait" =>
              /\ ~refreshed
              /\ log[Len(log)].blocked
              /\ log[Len(log)].ua = headers.UserAgent
              /\ log[Len(log)].cookie = cookies.cf_clearance)
    /\ []((pc = "aborted" /\ raised \in RefreshErrors /\ BlockedSolves # {}) =>
              /\ ~refreshed
              /\ log[Len(log)].blocked
              /\ ~log[Len(log)].retry
              /\ log[Len(log)].ua = headers.UserAgent
              /\ log[Len(log)].cookie = cookies.cf_clearance)

\* A refresh ended with ValueError: the solver wrote a file whose record
\* carries another user agent than the one in use and no cf_clearance key;
\* the blocked fetch is the last one made and it went out with the pair still held.
C23_Witness ==
    /\ pc = "aborted"
    /\ raised = "ValueError"
    /\ BlockedSolves # {}
    /\ outcome = "solved"
    /\ cf_info.user_agent # headers.UserAgent
    /\ cf_info.cf_clearance = None
    /\ cookies.cf_clearance \in CookieVals
    /\ ~refreshed
    /\ log[Len(log)].blocked
    /\ log[Len(log)].ua = headers.UserAgent

====
